---- MODULE Spec2Model ----
(***************************************************************************)
(* State-machine model of the Redux and Vuex interceptors                  *)
(* (ReduxInterceptor, VuexInterceptor): the closure state of one           *)
(* interceptor, the host's store objects whose dispatch/commit property    *)
(* the interceptor replaces, the window bindings the lookup inspects, and  *)
(* the setTimeout-driven discovery chains started by init; and of the      *)
(* ErrorInterceptor: its fields and the two window handlers it replaces.   *)
(***************************************************************************)
EXTENDS Integers, Sequences, FiniteSets, TLC

VARIABLES
    variant,        \* which interceptor was constructed: "redux" or "vuex"
    finder,         \* whether this.findReduxStore / this.findVuexStore resolves to a function
    api,            \* closure variable api
    store,          \* closure variable store
    originalMethod, \* closure variable originalDispatch / originalCommit
    unsubscribe,    \* closure variable unsubscribe: the handle a subscribe call returned
    method,         \* per store object: current value of its dispatch / commit property
    subs,           \* per store object: listeners registered by setStore and not yet removed
    win,            \* the three window bindings the lookup reads, in lookup order
    nchains,        \* number of init() calls so far (each starts one discovery chain)
    timer,          \* per chain: retries argument of its pending setTimeout, or NoTimer
    polls,          \* per chain: number of findStoreWithRetry invocations
    diags,          \* per chain: number of "use setStore()" warnings
    logged,         \* per chain: the remaining-attempts counts it has logged, in order
    setCalls,       \* per chain: number of this.setStore calls made by its polls
    binds,          \* number of setStore calls that passed validation
    soleBind,       \* the last accepted setStore: target, property value before it, first bind or rebind
    lastOp,         \* the last interceptor operation and what it did
    lastCall,       \* the last host call of a store's dispatch / commit property
    boundBy,        \* who made the binding now in place: the caller, a discovery poll, nobody
    lifecycle,      \* the last life-cycle call: none or init without a facade, init(api), destroy
    dom,            \* ErrorInterceptor: its fields and window.onerror / onunhandledrejection
    trail,          \* the breadcrumbs the facade's getBreadcrumbs returns, oldest first
    lastEvent       \* the last error / rejection event the runtime delivered to the window

vars == <<variant, finder, api, store, originalMethod, unsubscribe, method, subs, win,
          nchains, timer, polls, diags, logged, setCalls, binds, soleBind,
          lastOp, lastCall, boundBy, lifecycle, dom, trail, lastEvent>>

\* The variables of the ErrorInterceptor and its window.
domVars == <<dom, trail, lastEvent>>

----------------------------------------------------------------------------
(* Bounds of the model *)

MaxInits == 2      \* init() calls explored
MaxBinds == 2      \* setStore / autoFindStore calls by the caller after which it binds no more
StackDepth == 3    \* nested wrapper frames before the engine raises RangeError
MaxCrumbs == 11    \* addBreadcrumb calls the host makes between two clearBreadcrumbs

(* Program constants *)

DefaultRetries == 5    \* findStoreWithRetry(retries = 5, delay = 500)
TrailCap == 10         \* the facade keeps only the last 10 breadcrumbs

NULL == "null"
NoTimer == 0 - 1

----------------------------------------------------------------------------
(* Values *)

Variants == {"redux", "vuex"}

\* The host's store objects, one per shape the typeof checks distinguish.
\*   sA, sB     dispatch/commit, getState, subscribe
\*   sNoGet     dispatch/commit and subscribe, no getState
\*   sNoMeth    getState and subscribe, no dispatch/commit
\*   sNoSub     dispatch/commit and getState, no subscribe
Stores == {"sA", "sB", "sNoGet", "sNoMeth", "sNoSub"}

HasMethod(s) == s # "sNoMeth"
HasGetState(s) == s # "sNoGet"
HasSubscribe(s) == s # "sNoSub"

\* What a store's subscribe does when setStore calls it: it returns an
\* unsubscribe handle, it throws, or it returns a handle that throws when called.
SubBehaviours == {"handle", "throws", "badHandle"}

Handle(s, sb) == <<s, sb>>
NoHandle == <<"null", "-">>
HandleThrows(h) == h[2] = "badHandle"

\* Function values a dispatch/commit property or the saved original can hold.
\* WRAP(k) is the arrow function the k-th accepted setStore created: each
\* setStore creates a new function object.
Native(s) == <<"native", s>>
WRAP(k) == <<"wrapper", k>>
UNDEF == <<"undefined", "-">>
NULLM == <<"null", "-">>

IsNative(m) == m[1] = "native"
IsWrapper(m) == m[1] = "wrapper"
Truthy(m) == m # UNDEF /\ m # NULLM

InitialMethod(s) == IF HasMethod(s) THEN Native(s) ELSE UNDEF

Actions == {"X", "Y"}
Behaviours == {"ok", "throw"}
ApiValues == {"api", NULL}

\* Facades init can be given: one whose calls return, and one whose
\* addBreadcrumb throws while its sendError returns.
Facades == {"api", "apiThrows"}

Category(v) == v
ErrorType(v) == IF v = "redux" THEN "redux_dispatch_error" ELSE "vuex_commit_error"

Crumb(v, phase, a) == <<"crumb", Category(v), phase, a>>
SentError(v, err, a) == <<"sendError", ErrorType(v), err, a>>
NativeCall(s, recv, a) == <<"native", s, recv, a>>
DestroyCall(s) == <<"destroy", s, "-", "-">>

Returned(ev, val) == [ev |-> ev, out |-> "return", val |-> val]
Thrown(ev, err) == [ev |-> ev, out |-> "throw", val |-> err]

----------------------------------------------------------------------------
(* The wrapper installed by setStore, and a call of a function value *)

\* The store's own dispatch/commit, as the host wrote it: it returns the
\* action / mutation type it was given, or throws.
NativeMethod(s, recv, a, beh) ==
    IF beh = "ok"
    THEN Returned(<<NativeCall(s, recv, a)>>, a)
    ELSE Thrown(<<NativeCall(s, recv, a)>>, "NativeError")

RECURSIVE Wrapper(_, _, _, _, _, _, _)
RECURSIVE CallMethod(_, _, _, _, _, _, _, _)

\* m.call(recv, a): m is a native method, a wrapper, or not a function.
\* A wrapper ignores its receiver: it reads the closure variables.
CallMethod(m, recv, v, api_, store_, orig_, ab, depth) ==
    IF IsNative(m) THEN NativeMethod(m[2], recv, ab[1], ab[2])
    ELSE IF IsWrapper(m) THEN Wrapper(v, api_, store_, orig_, ab[1], ab[2], depth)
    ELSE Thrown(<<>>, "TypeError")

\* Wrapper with the second addBreadcrumb left out.
Wrapper_noPost(v, api_, store_, orig_, a, beh, depth) ==
    IF depth > StackDepth THEN Thrown(<<>>, "RangeError")
    ELSE IF api_ = NULL THEN Thrown(<<>>, "TypeError")
    ELSE IF store_ = NULL THEN Thrown(<<SentError(v, "TypeError", a)>>, "TypeError")
    ELSE IF api_ = "apiThrows" THEN Thrown(<<SentError(v, "ApiError", a)>>, "ApiError")
    ELSE LET pre == <<Crumb(v, "pre", a)>>
             r == CallMethod(orig_, store_, v, api_, store_, orig_, <<a, beh>>, depth + 1)
         IN  IF r.out = "return"
             THEN Returned(pre \o r.ev, r.val)
             ELSE Thrown(pre \o r.ev \o <<SentError(v, r.val, a)>>, r.val)

\* store.dispatch = (action) => { try { ... } catch (error) { ... } }
\* The closure variables are read at call time, not captured at setStore.
Wrapper(v, api_, store_, orig_, a, beh, depth) ==
    IF depth > StackDepth
    THEN \* call stack exhausted on entry
         Thrown(<<>>, "RangeError")
    ELSE IF api_ = NULL
    THEN \* api.addBreadcrumb throws; in the catch block api.sendError throws
         Thrown(<<>>, "TypeError")
    ELSE IF store_ = NULL
    THEN \* store.getState() / store.state throws; the catch block reports it
         Thrown(<<SentError(v, "TypeError", a)>>, "TypeError")
    ELSE IF api_ = "apiThrows"
    THEN \* the first api.addBreadcrumb throws inside the try block: the catch
         \* block reports that error and rethrows it, the original is not called
         Thrown(<<SentError(v, "ApiError", a)>>, "ApiError")
    ELSE LET pre == <<Crumb(v, "pre", a)>>
             r == CallMethod(orig_, store_, v, api_, store_, orig_, <<a, beh>>, depth + 1)
         IN  IF r.out = "return"
             THEN Returned(pre \o r.ev \o <<Crumb(v, "post", a)>>, r.val)
             ELSE Thrown(pre \o r.ev \o <<SentError(v, r.val, a)>>, r.val)

----------------------------------------------------------------------------
(* The interceptor's operations, as functions of the closure state          *)
(* st = [api, store, orig, unsub, method, subs, binds, sole]                *)

\* typeof checks of setStore: Redux tests getState and subscribe, Vuex tests
\* commit and subscribe.
RequiredMethods(v, t) ==
    IF v = "redux"
    THEN HasGetState(t) /\ HasSubscribe(t)
    ELSE HasMethod(t) /\ HasSubscribe(t)

\* setStore without the test of api.
setStore_noApiCheck(v, st, t, sb) ==
    IF t = NULL THEN st
    ELSE IF ~RequiredMethods(v, t) THEN st
    ELSE LET patched == [st EXCEPT !.store = t,
                                   !.orig = st.method[t],
                                   !.method[t] = WRAP(st.binds + 1),
                                   !.binds = @ + 1,
                                   !.sole = [s |-> t, pre |-> st.method[t],
                                             first |-> st.store = NULL]]
         IN  IF sb = "throws"
             THEN patched
             ELSE [patched EXCEPT !.unsub = Handle(t, sb), !.subs[t] = @ + 1]

\* setStore that records the target and leaves its property alone.
setStore_noPatch(v, st, t, sb) ==
    IF st.api = NULL THEN st
    ELSE IF t = NULL THEN st
    ELSE IF ~RequiredMethods(v, t) THEN st
    ELSE [st EXCEPT !.store = t, !.orig = st.method[t], !.binds = @ + 1,
                    !.sole = [s |-> t, pre |-> st.method[t], first |-> st.store = NULL]]

setStore(v, st, t, sb) ==
    IF st.api = NULL THEN st
    ELSE IF t = NULL THEN st
    ELSE IF ~RequiredMethods(v, t) THEN st
    ELSE LET patched == [st EXCEPT !.store = t,
                                   !.orig = st.method[t],
                                   !.method[t] = WRAP(st.binds + 1),
                                   !.binds = @ + 1,
                                   !.sole = [s |-> t, pre |-> st.method[t],
                                             first |-> st.store = NULL]]
         IN  IF sb = "throws"
             THEN \* the catch block logs; store, original and the wrapper stay
                  patched
             ELSE [patched EXCEPT !.unsub = Handle(t, sb), !.subs[t] = @ + 1]

\* destroy that clears the store, the original and the handle, not api.
destroy_keepApi(st) ==
    LET restored == IF st.store # NULL /\ Truthy(st.orig)
                    THEN [st EXCEPT !.method[st.store] = st.orig]
                    ELSE st
    IN  IF st.unsub # NoHandle /\ HandleThrows(st.unsub)
        THEN restored
        ELSE LET released == IF st.unsub # NoHandle
                             THEN [restored EXCEPT !.subs[st.unsub[1]] = @ - 1]
                             ELSE restored
             IN  [released EXCEPT !.store = NULL, !.orig = NULLM, !.unsub = NoHandle]

\* destroy without the write-back of the saved original.
destroy_noRestore(st) ==
    IF st.unsub # NoHandle /\ HandleThrows(st.unsub)
    THEN st
    ELSE LET released == IF st.unsub # NoHandle
                         THEN [st EXCEPT !.subs[st.unsub[1]] = @ - 1]
                         ELSE st
         IN  [released EXCEPT !.store = NULL, !.orig = NULLM,
                              !.unsub = NoHandle, !.api = NULL]

destroy(st) ==
    LET restored == IF st.store # NULL /\ Truthy(st.orig)
                    THEN [st EXCEPT !.method[st.store] = st.orig]
                    ELSE st
    IN  IF st.unsub # NoHandle /\ HandleThrows(st.unsub)
        THEN \* unsubscribe() throws: the catch block logs, nothing is cleared
             restored
        ELSE LET released == IF st.unsub # NoHandle
                             THEN [restored EXCEPT !.subs[st.unsub[1]] = @ - 1]
                             ELSE restored
             IN  [released EXCEPT !.store = NULL, !.orig = NULLM,
                                  !.unsub = NoHandle, !.api = NULL]

\* The lookup of autoFindStore with the bindings read in the opposite order.
LookupGlobals_lastWins(v, w) ==
    IF w[3] # NULL /\ (v = "vuex" \/ HasGetState(w[3])) THEN w[3]
    ELSE IF w[2] # NULL THEN w[2]
    ELSE IF w[1] # NULL THEN w[1]
    ELSE NULL

\* The lookup of autoFindStore: window.reduxStore, window.store, then the
\* devtools connection if it has getState (Vuex: window.$store, window.store,
\* window.vuexStore).
LookupGlobals(v, w) ==
    IF w[1] # NULL THEN w[1]
    ELSE IF w[2] # NULL THEN w[2]
    ELSE IF w[3] # NULL /\ (v = "vuex" \/ HasGetState(w[3])) THEN w[3]
    ELSE NULL

\* found is the value handed to this.setStore, NULL where it is not called.
autoFindStore(v, st, w, sb) ==
    IF st.api = NULL THEN [st |-> st, ret |-> "false", found |-> NULL]
    ELSE LET foundStore == LookupGlobals(v, w)
         IN  IF foundStore # NULL
             THEN [st |-> setStore(v, st, foundStore, sb), ret |-> "true",
                   found |-> foundStore]
             ELSE [st |-> st, ret |-> "false", found |-> NULL]

\* this.findReduxStore() / this.findVuexStore(): no such method is defined on
\* the interceptor object. Where the host has supplied it, it is the lookup
\* section 4.2 describes: the first present binding, in the variant's order.
findStore(v, w) ==
    IF w[1] # NULL THEN w[1]
    ELSE IF w[2] # NULL THEN w[2]
    ELSE w[3]

PollResult(st, threw, tm, diag, set, log) ==
    [st |-> st, threw |-> threw, timer |-> tm, diag |-> diag, set |-> set, log |-> log]

\* findStoreWithRetry giving up one retry early.
findStoreWithRetry_offByOne(v, st, fw, retries, sb) ==
    IF ~fw[1]
    THEN PollResult(st, TRUE, NoTimer, 0, 0, <<>>)
    ELSE LET foundStore == findStore(v, fw[2])
         IN  IF foundStore # NULL
             THEN PollResult(setStore(v, st, foundStore, sb), FALSE, NoTimer, 0, 1, <<>>)
             ELSE IF retries > 1
             THEN PollResult(st, FALSE, retries - 1, 0, 0, <<retries>>)
             ELSE PollResult(st, FALSE, NoTimer, 1, 0, <<>>)

\* findStoreWithRetry spending two retries per failed poll.
findStoreWithRetry_skip(v, st, fw, retries, sb) ==
    IF ~fw[1]
    THEN PollResult(st, TRUE, NoTimer, 0, 0, <<>>)
    ELSE LET foundStore == findStore(v, fw[2])
         IN  IF foundStore # NULL
             THEN PollResult(setStore(v, st, foundStore, sb), FALSE, NoTimer, 0, 1, <<>>)
             ELSE IF retries > 0
             THEN PollResult(st, FALSE, retries - 2, 0, 0, <<retries>>)
             ELSE PollResult(st, FALSE, NoTimer, 1, 0, <<>>)

\* findStoreWithRetry that schedules no retry once destroy has cleared api.
findStoreWithRetry_stopsWhenDestroyed(v, st, fw, retries, sb) ==
    IF ~fw[1]
    THEN PollResult(st, TRUE, NoTimer, 0, 0, <<>>)
    ELSE LET foundStore == findStore(v, fw[2])
         IN  IF foundStore # NULL
             THEN PollResult(setStore(v, st, foundStore, sb), FALSE, NoTimer, 0, 1, <<>>)
             ELSE IF retries > 0 /\ st.api # NULL
             THEN PollResult(st, FALSE, retries - 1, 0, 0, <<retries>>)
             ELSE PollResult(st, FALSE, NoTimer, IF st.api # NULL THEN 1 ELSE 0, 0, <<>>)

findStoreWithRetry(v, st, fw, retries, sb) ==
    IF ~fw[1]
    THEN \* TypeError: this.findReduxStore is not a function
         PollResult(st, TRUE, NoTimer, 0, 0, <<>>)
    ELSE LET foundStore == findStore(v, fw[2])
         IN  IF foundStore # NULL
             THEN PollResult(setStore(v, st, foundStore, sb), FALSE, NoTimer, 0, 1, <<>>)
             ELSE IF retries > 0
             THEN PollResult(st, FALSE, retries - 1, 0, 0, <<retries>>)
             ELSE PollResult(st, FALSE, NoTimer, 1, 0, <<>>)

\* A call of the wrapper of the bound store, over the store's own method,
\* when that method calls destroy() before it returns or throws: the
\* wrapper read api, store and the saved original before the call and reads
\* api and store again after it, from the closure as destroy left it (after).
WrapperAcrossDestroy(v, st, after, a, beh) ==
    LET pre == <<Crumb(v, "pre", a)>>
        r == NativeMethod(st.orig[2], st.store, a, beh)
        inner == pre \o r.ev \o <<DestroyCall(st.store)>>
    IN  IF after.api = NULL
        THEN \* api.addBreadcrumb (the original returned) or, in the catch block,
             \* api.sendError (it threw) is read from null
             Thrown(inner, "TypeError")
        ELSE IF r.out = "return"
        THEN IF after.store = NULL
             THEN Thrown(inner \o <<SentError(v, "TypeError", a)>>, "TypeError")
             ELSE Returned(inner \o <<Crumb(v, "post", a)>>, r.val)
        ELSE Thrown(inner \o <<SentError(v, r.val, a)>>, r.val)

init(v, st, fw, apiInstance, sb) ==
    findStoreWithRetry(v, [st EXCEPT !.api = apiInstance], fw, DefaultRetries, sb)

getInfo(st) ==
    [isInitialized |-> st.api # NULL,
     hasStore |-> st.store # NULL,
     storeType |-> IF st.store # NULL THEN "configured" ELSE "none"]

----------------------------------------------------------------------------
(* The ErrorInterceptor: handler values, the replacement handlers, and its  *)
(* operations as functions of es = [isInitialized, originalHandlers,        *)
(* syntropyFront, config, onerror, onunhandledrejection] (the last two are  *)
(* the window's properties)                                                 *)

Slots == {"onerror", "onunhandledrejection"}

\* Values a window handler property or a saved handler can hold: null, a
\* missing property, a function the host installed, and the arrow function
\* that the k-th init() call created.
NULLH == <<"null", 0>>
UNDEFH == <<"undefined", 0>>
HostHandler == <<"host", 0>>
Replacement(k) == <<"replacement", k>>

IsFunction(h) == h[1] \in {"host", "replacement"}
IsReplacement(h) == h[1] = "replacement"

NoHandlers == [onerror |-> UNDEFH, onunhandledrejection |-> UNDEFH]
NoConfig == [set |-> FALSE, captureErrors |-> FALSE, captureUnhandledRejections |-> FALSE]
Config(ce, cu) == [set |-> TRUE, captureErrors |-> ce, captureUnhandledRejections |-> cu]

\* constructor(), with both window handlers unset.
Constructed ==
    [isInitialized |-> FALSE, originalHandlers |-> NoHandlers, syntropyFront |-> NULL,
     config |-> NoConfig, onerror |-> NULLH, onunhandledrejection |-> NULLH]

\* The facade's breadcrumb list. A breadcrumb is the ordinal of the
\* addBreadcrumb call that made it, counted from the last clearBreadcrumbs.
\* addBreadcrumb pushes, then keeps only the last 10: breadcrumbs.slice(-10).
addBreadcrumb(tr) ==
    LET pushed == Append(tr, IF tr = <<>> THEN 1 ELSE tr[Len(tr)] + 1)
    IN  IF Len(pushed) > TrailCap
        THEN SubSeq(pushed, Len(pushed) - TrailCap + 1, Len(pushed))
        ELSE pushed

clearBreadcrumbs(tr) == <<>>

PayloadType(slot) ==
    IF slot = "onerror" THEN "uncaught_exception" ELSE "unhandled_rejection"

\* this.sendError(errorPayload): the payload's type and the breadcrumbs that
\* this.getBreadcrumbs() returned; nothing is sent without a facade.
SentPayload(slot, sf, tr) ==
    IF sf # NULL THEN <<<<"sendError", PayloadType(slot), tr>>>> ELSE <<>>

ChainedCall(slot) == <<"chained", slot, <<>>>>

RECURSIVE CallHandler(_, _, _, _, _, _)

\* h(...args) for a handler value h of the given slot. A replacement reads
\* this.originalHandlers and this.syntropyFront when it is called.
CallHandler(slot, h, oh, sf, tr, depth) ==
    IF h = HostHandler
    THEN Returned(<<ChainedCall(slot)>>, "hostResult")
    ELSE IF ~IsReplacement(h)
    THEN Thrown(<<>>, "TypeError")
    ELSE IF depth > StackDepth
    THEN Thrown(<<>>, "RangeError")
    ELSE IF IsFunction(oh[slot])
    THEN LET r == CallHandler(slot, oh[slot], oh, sf, tr, depth + 1)
         IN  IF r.out = "throw"
             THEN Thrown(SentPayload(slot, sf, tr) \o r.ev, r.val)
             ELSE Returned(SentPayload(slot, sf, tr) \o r.ev,
                           IF slot = "onerror" THEN r.val ELSE "undefined")
    ELSE Returned(SentPayload(slot, sf, tr),
                  IF slot = "onerror" THEN "false" ELSE "undefined")

setupErrorInterceptors(es, k) ==
    LET e1 == IF es.config.captureErrors
              THEN [es EXCEPT !.originalHandlers.onerror = es.onerror,
                              !.onerror = Replacement(k)]
              ELSE es
    IN  IF e1.config.captureUnhandledRejections
        THEN [e1 EXCEPT !.originalHandlers.onunhandledrejection = e1.onunhandledrejection,
                        !.onunhandledrejection = Replacement(k)]
        ELSE e1

\* ErrorInterceptor.init(syntropyFront, config); k numbers the init() calls.
ErrorInterceptor_init(es, sf, cfg, k) ==
    IF es.isInitialized THEN es
    ELSE [setupErrorInterceptors([es EXCEPT !.syntropyFront = sf, !.config = cfg], k)
             EXCEPT !.isInitialized = TRUE]

\* ErrorInterceptor.destroy()
ErrorInterceptor_destroy(es) ==
    IF ~es.isInitialized THEN es
    ELSE LET e1 == IF IsFunction(es.originalHandlers.onerror)
                   THEN [es EXCEPT !.onerror = es.originalHandlers.onerror]
                   ELSE es
             e2 == IF IsFunction(es.originalHandlers.onunhandledrejection)
                   THEN [e1 EXCEPT !.onunhandledrejection =
                                       es.originalHandlers.onunhandledrejection]
                   ELSE e1
         IN  [e2 EXCEPT !.isInitialized = FALSE, !.originalHandlers = NoHandlers]

getStatus(es) ==
    [isInitialized |-> es.isInitialized,
     hasOriginalHandlers |->
         [onerror |-> IsFunction(es.originalHandlers.onerror),
          onunhandledrejection |-> IsFunction(es.originalHandlers.onunhandledrejection)]]

NoEvent == [slot |-> "-", h |-> NULLH, prev |-> UNDEFH, init |-> FALSE,
            ev |-> <<>>, out |-> "-", val |-> "-"]

----------------------------------------------------------------------------
(* The state machine *)

Chains == 1..MaxInits
WinSlots == 1..3
WinStores == {"sA", "sNoGet", "sNoSub"}

NoBind == [s |-> NULL, pre |-> NULLM, first |-> FALSE]
NoOp == [op |-> "none", target |-> "-", threw |-> FALSE, mutated |-> FALSE,
         present |-> FALSE, set |-> FALSE, ret |-> "-",
         over |-> "none", lifecycle |-> "new", again |-> FALSE, unsub |-> FALSE,
         changed |-> FALSE, saved |-> NoHandlers]
NoCall == [s |-> NULL, m |-> NULLM, a |-> "-", beh |-> "-", ev |-> <<>>,
           out |-> "-", val |-> "-"]

Closure ==
    [api |-> api, store |-> store, orig |-> originalMethod, unsub |-> unsubscribe,
     method |-> method, subs |-> subs, binds |-> binds, sole |-> soleBind]

\* Write a closure state back to the variables.
Commit(st) ==
    /\ api' = st.api
    /\ store' = st.store
    /\ originalMethod' = st.orig
    /\ unsubscribe' = st.unsub
    /\ method' = st.method
    /\ subs' = st.subs
    /\ binds' = st.binds
    /\ soleBind' = st.sole

\* The closure variables and the host objects an operation can write.
Fields(st) == <<st.api, st.store, st.orig, st.unsub, st.method, st.subs>>

\* What an operation did: whether it threw to its caller, whether a setStore
\* inside it passed validation, and its return value; the life-cycle call
\* that preceded it, whether it is a destroy() that follows a destroy(),
\* whether it invoked the saved unsubscribe handle, and whether it wrote any
\* closure variable or store.
Op(name, target, threw, st, ret) ==
    [op |-> name, target |-> target, threw |-> threw, mutated |-> st.binds # binds,
     present |-> FALSE, set |-> FALSE, ret |-> ret,
     over |-> "none", lifecycle |-> lifecycle,
     again |-> name = "destroy" /\ lastOp.op = "destroy",
     unsub |-> name = "destroy" /\ unsubscribe # NoHandle,
     changed |-> Fields(st) # Fields(Closure), saved |-> NoHandlers]

\* The same for a discovery poll: whether a window binding was present when
\* it ran, whether it called setStore, and who had made the binding it found.
PollOp(name, r) ==
    [op |-> name, target |-> "-", threw |-> r.threw, mutated |-> r.st.binds # binds,
     present |-> findStore(variant, win) # NULL, set |-> r.set = 1, ret |-> "-",
     over |-> boundBy, lifecycle |-> lifecycle, again |-> FALSE, unsub |-> FALSE,
     changed |-> Fields(r.st) # Fields(Closure), saved |-> NoHandlers]

\* The same for an ErrorInterceptor operation that leaves it in state es:
\* whether it wrote a window handler, and the handlers it held saved when it
\* began.
DomOp(name, es) ==
    [op |-> name, target |-> "-", threw |-> FALSE,
     mutated |-> <<es.onerror, es.onunhandledrejection>>
                     # <<dom.onerror, dom.onunhandledrejection>>,
     present |-> FALSE, set |-> FALSE, ret |-> "-",
     over |-> "none", lifecycle |-> lifecycle,
     again |-> name = "destroy" /\ lastOp.op = "destroy",
     unsub |-> FALSE, changed |-> es # dom, saved |-> dom.originalHandlers]

\* Who made the binding in place once an operation by `who` has left the
\* closure in state st.
Track(who, st) ==
    boundBy' = IF st.binds # binds THEN who
               ELSE IF st.store = NULL THEN "none"
               ELSE boundBy

\* The state after construction of an interceptor of one of the variants V.
InitOf(V) ==
    /\ variant \in V
    /\ finder = FALSE
    /\ api = NULL
    /\ store = NULL
    /\ originalMethod = NULLM
    /\ unsubscribe = NoHandle
    /\ method = [s \in Stores |-> InitialMethod(s)]
    /\ subs = [s \in Stores |-> 0]
    /\ win = [i \in WinSlots |-> NULL]
    /\ nchains = 0
    /\ timer = [c \in Chains |-> NoTimer]
    /\ polls = [c \in Chains |-> 0]
    /\ diags = [c \in Chains |-> 0]
    /\ logged = [c \in Chains |-> <<>>]
    /\ setCalls = [c \in Chains |-> 0]
    /\ binds = 0
    /\ soleBind = NoBind
    /\ lastOp = NoOp
    /\ lastCall = NoCall
    /\ boundBy = "none"
    /\ lifecycle = "new"
    /\ dom = Constructed
    /\ trail = <<>>
    /\ lastEvent = NoEvent

Init == InitOf(Variants)

\* One invocation of findStoreWithRetry on behalf of chain c.
Poll(c, r) ==
    /\ Commit(r.st)
    /\ Track("poll", r.st)
    /\ timer' = [timer EXCEPT ![c] = r.timer]
    /\ polls' = [polls EXCEPT ![c] = @ + 1]
    /\ diags' = [diags EXCEPT ![c] = @ + r.diag]
    /\ logged' = [logged EXCEPT ![c] = @ \o r.log]
    /\ setCalls' = [setCalls EXCEPT ![c] = @ + r.set]
    /\ lastCall' = NoCall

\* The host supplies the lookup method on the interceptor object.
ProvideLookup ==
    /\ ~finder
    /\ finder' = TRUE
    /\ lastCall' = NoCall
    /\ UNCHANGED <<variant, api, store, originalMethod, unsubscribe, method, subs, win,
                   nchains, timer, polls, diags, logged, setCalls, binds, soleBind, lastOp,
                   boundBy, lifecycle, domVars>>

\* The host assigns one of the window bindings; the bindings the last
\* operation read are then no longer there to observe.
SetGlobal(i, s) ==
    /\ win[i] = NULL
    /\ win' = [win EXCEPT ![i] = s]
    /\ lastOp' = NoOp
    /\ lastCall' = NoCall
    /\ UNCHANGED <<variant, finder, api, store, originalMethod, unsubscribe, method, subs,
                   nchains, timer, polls, diags, logged, setCalls, binds, soleBind,
                   boundBy, lifecycle, domVars>>

DoInit(a, sb) ==
    /\ nchains < MaxInits
    /\ LET r == init(variant, Closure, <<finder, win>>, a, sb)
       IN  /\ Poll(nchains + 1, r)
           /\ lastOp' = PollOp("init", r)
    /\ nchains' = nchains + 1
    /\ lifecycle' = (IF a # NULL THEN "initialised" ELSE "new")
    /\ UNCHANGED <<variant, finder, win, domVars>>

\* A pending setTimeout callback of chain c runs.
TimerFire(c, sb) ==
    /\ timer[c] # NoTimer
    /\ LET r == findStoreWithRetry(variant, Closure, <<finder, win>>, timer[c], sb)
       IN  /\ Poll(c, r)
           /\ lastOp' = PollOp("poll", r)
    /\ UNCHANGED <<variant, finder, win, nchains, lifecycle, domVars>>

DoSetStore(t, sb) ==
    /\ binds < MaxBinds
    /\ LET st == setStore(variant, Closure, t, sb)
       IN  /\ Commit(st)
           /\ Track("caller", st)
           /\ lastOp' = Op("setStore", t, FALSE, st, "-")
    /\ lastCall' = NoCall
    /\ UNCHANGED <<variant, finder, win, nchains, timer, polls, diags, logged, setCalls, lifecycle,
                   domVars>>

DoAutoFindStore(sb) ==
    /\ binds < MaxBinds
    /\ LET r == autoFindStore(variant, Closure, win, sb)
       IN  /\ Commit(r.st)
           /\ Track("caller", r.st)
           /\ lastOp' = Op("autoFindStore", r.found, FALSE, r.st, r.ret)
    /\ lastCall' = NoCall
    /\ UNCHANGED <<variant, finder, win, nchains, timer, polls, diags, logged, setCalls, lifecycle,
                   domVars>>

DoDestroy ==
    /\ LET st == destroy(Closure)
       IN  /\ Commit(st)
           /\ Track("caller", st)
           /\ lastOp' = Op("destroy", "-", FALSE, st, "-")
    /\ lastCall' = NoCall
    /\ lifecycle' = "destroyed"
    /\ UNCHANGED <<variant, finder, win, nchains, timer, polls, diags, logged, setCalls, domVars>>

\* The host calls s.dispatch(a) / s.commit(a); beh is what the store's own
\* method does if it is reached.
HostCall(s, a, beh) ==
    /\ method[s] # UNDEF
    /\ LET r == CallMethod(method[s], s, variant, api, store, originalMethod,
                           <<a, beh>>, 1)
       IN  lastCall' = [s |-> s, m |-> method[s], a |-> a, beh |-> beh,
                        ev |-> r.ev, out |-> r.out, val |-> r.val]
    /\ UNCHANGED <<variant, finder, api, store, originalMethod, unsubscribe, method, subs,
                   win, nchains, timer, polls, diags, logged, setCalls, binds, soleBind, lastOp,
                   boundBy, lifecycle, domVars>>

\* The host calls a wrapper through a reference it took from the property
\* of the store bound last (const d = s.dispatch) while the wrapper was
\* there; the reference stays callable whatever the property holds now.
HostCallHeld(a, beh) ==
    /\ soleBind.s # NULL
    /\ LET r == CallMethod(WRAP(binds), soleBind.s, variant, api, store, originalMethod,
                           <<a, beh>>, 1)
       IN  lastCall' = [s |-> soleBind.s, m |-> WRAP(binds), a |-> a, beh |-> beh,
                        ev |-> r.ev, out |-> r.out, val |-> r.val]
    /\ UNCHANGED <<variant, finder, api, store, originalMethod, unsubscribe, method, subs,
                   win, nchains, timer, polls, diags, logged, setCalls, binds, soleBind, lastOp,
                   boundBy, lifecycle, domVars>>

\* The host calls s.dispatch(a) / s.commit(a) on the bound store, whose own
\* method (a reducer, a mutation or a listener it runs) calls destroy().
HostCallDestroying(s, a, beh) ==
    /\ IsWrapper(method[s]) /\ store = s /\ IsNative(originalMethod)
    /\ api = "api"
    /\ LET st == destroy(Closure)
           r == WrapperAcrossDestroy(variant, Closure, st, a, beh)
       IN  /\ Commit(st)
           /\ Track("caller", st)
           /\ lastOp' = Op("destroy", "-", FALSE, st, "-")
           /\ lastCall' = [s |-> s, m |-> method[s], a |-> a, beh |-> beh,
                            ev |-> r.ev, out |-> r.out, val |-> r.val]
    /\ lifecycle' = "destroyed"
    /\ UNCHANGED <<variant, finder, win, nchains, timer, polls, diags, logged, setCalls, domVars>>

Next ==
    \/ ProvideLookup
    \/ \E i \in WinSlots, s \in WinStores : SetGlobal(i, s)
    \/ \E a \in ApiValues, sb \in SubBehaviours : DoInit(a, sb)
    \/ \E c \in Chains, sb \in SubBehaviours : TimerFire(c, sb)
    \/ \E t \in Stores \cup {NULL}, sb \in SubBehaviours : DoSetStore(t, sb)
    \/ \E sb \in SubBehaviours : DoAutoFindStore(sb)
    \/ DoDestroy
    \/ \E s \in Stores, a \in Actions, beh \in Behaviours : HostCall(s, a, beh)
    \/ \E a \in Actions, beh \in Behaviours : HostCallHeld(a, beh)
    \/ \E s \in Stores, a \in Actions, beh \in Behaviours : HostCallDestroying(s, a, beh)

Spec == Init /\ [][Next]_vars

\* The variables of the Redux / Vuex interceptor and its host.
storeVars == <<finder, api, store, originalMethod, unsubscribe, method, subs, win,
               timer, polls, diags, logged, setCalls, binds, soleBind, lastCall, boundBy>>

\* errorInterceptor.init(sf, {captureErrors: ce, captureUnhandledRejections: cu})
DomInit(sf, ce, cu) ==
    /\ variant = "error"
    /\ nchains < MaxInits
    /\ LET es == ErrorInterceptor_init(dom, sf, Config(ce, cu), nchains + 1)
       IN  /\ dom' = es
           /\ lastOp' = DomOp("init", es)
    /\ nchains' = nchains + 1
    /\ lifecycle' = (IF dom.isInitialized THEN lifecycle ELSE "initialised")
    /\ lastEvent' = NoEvent
    /\ UNCHANGED <<variant, storeVars, trail>>

\* errorInterceptor.destroy()
DomDestroy ==
    /\ variant = "error"
    /\ LET es == ErrorInterceptor_destroy(dom)
       IN  /\ dom' = es
           /\ lastOp' = DomOp("destroy", es)
    /\ lifecycle' = "destroyed"
    /\ lastEvent' = NoEvent
    /\ UNCHANGED <<variant, storeVars, nchains, trail>>

\* The host assigns window.onerror / window.onunhandledrejection; what the
\* last operation left in the window is then no longer there to observe.
HostInstall(slot, h) ==
    /\ variant = "error"
    /\ dom[slot] # h
    /\ dom' = [dom EXCEPT ![slot] = h]
    /\ lastOp' = NoOp
    /\ lastEvent' = NoEvent
    /\ UNCHANGED <<variant, storeVars, nchains, lifecycle, trail>>

\* The host records a breadcrumb with the facade.
AddBreadcrumb ==
    /\ variant = "error"
    /\ (IF trail = <<>> THEN TRUE ELSE trail[Len(trail)] < MaxCrumbs)
    /\ trail' = addBreadcrumb(trail)
    /\ lastEvent' = NoEvent
    /\ UNCHANGED <<variant, storeVars, nchains, lastOp, lifecycle, dom>>

\* The host empties the facade's breadcrumb list.
ClearBreadcrumbs ==
    /\ variant = "error"
    /\ trail # <<>>
    /\ trail' = clearBreadcrumbs(trail)
    /\ lastEvent' = NoEvent
    /\ UNCHANGED <<variant, storeVars, nchains, lastOp, lifecycle, dom>>

\* The runtime delivers an uncaught error / an unhandled rejection to the
\* window's handler for it, if that is a function.
FireEvent(slot) ==
    /\ variant = "error"
    /\ IsFunction(dom[slot])
    /\ LET r == CallHandler(slot, dom[slot], dom.originalHandlers, dom.syntropyFront,
                            trail, 1)
       IN  lastEvent' = [slot |-> slot, h |-> dom[slot],
                         prev |-> dom.originalHandlers[slot],
                         init |-> dom.isInitialized,
                         ev |-> r.ev, out |-> r.out, val |-> r.val]
    /\ UNCHANGED <<variant, storeVars, nchains, lastOp, lifecycle, dom, trail>>

\* The interceptor as shipped, driven through its operations and through the
\* patched stores: no lookup method on the object, no window binding.
NextWrap ==
    \/ \E a \in ApiValues : DoInit(a, "handle")
    \/ \E t \in Stores \cup {NULL}, sb \in SubBehaviours : DoSetStore(t, sb)
    \/ DoDestroy
    \/ \E s \in Stores, beh \in Behaviours : HostCall(s, "X", beh)

SpecWrap == Init /\ [][NextWrap]_vars

\* Discovery: the host supplies the lookup and creates its store late, the
\* timers fire, and the caller binds and destroys in between.
NextDisc ==
    \/ ProvideLookup
    \/ \E s \in {"sA", "sNoSub"} : SetGlobal(1, s)
    \/ \E a \in ApiValues : DoInit(a, "handle")
    \/ \E c \in Chains : TimerFire(c, "handle")
    \/ \E t \in {"sA", "sB"} : DoSetStore(t, "handle")
    \/ DoDestroy

SpecDisc == Init /\ [][NextDisc]_vars

\* Teardown while a timer is pending: the caller binds a store whose
\* unsubscribe handle may throw, destroys, and the timer fires afterwards.
NextTeardown ==
    \/ ProvideLookup
    \/ SetGlobal(1, "sA")
    \/ DoInit("api", "handle")
    \/ \E c \in Chains : TimerFire(c, "handle")
    \/ \E t \in {"sA", "sB"}, sb \in {"handle", "badHandle"} : DoSetStore(t, sb)
    \/ DoDestroy

SpecTeardown == Init /\ [][NextTeardown]_vars

\* The retry loop on its own: init, the timers, the store appearing late,
\* destroy in between. The event loop runs every pending setTimeout callback.
NextPoll ==
    \/ ProvideLookup
    \/ \E s \in {"sA", "sNoSub"} : SetGlobal(1, s)
    \/ \E a \in ApiValues : DoInit(a, "handle")
    \/ \E c \in Chains : TimerFire(c, "handle")
    \/ DoDestroy

FairPoll ==
    Init /\ [][NextPoll]_vars /\ \A c \in Chains : WF_vars(TimerFire(c, "handle"))

\* Destroy while the retry loop runs: init with a facade, the timers, a
\* valid store appearing late, destroy at any point in between. The event
\* loop runs every pending setTimeout callback.
NextLateDestroy ==
    \/ ProvideLookup
    \/ SetGlobal(1, "sA")
    \/ DoInit("api", "handle")
    \/ \E c \in Chains : TimerFire(c, "handle")
    \/ DoDestroy

FairLateDestroy ==
    Init /\ [][NextLateDestroy]_vars /\ \A c \in Chains : WF_vars(TimerFire(c, "handle"))

\* The ErrorInterceptor and its window: init with each configuration,
\* destroy, error and rejection events, the host's own handlers.
NextDom ==
    \/ \E sf \in ApiValues, ce \in BOOLEAN, cu \in BOOLEAN : DomInit(sf, ce, cu)
    \/ DomDestroy
    \/ \E slot \in Slots, h \in {HostHandler, NULLH} : HostInstall(slot, h)
    \/ AddBreadcrumb
    \/ ClearBreadcrumbs
    \/ \E slot \in Slots : FireEvent(slot)

\* The wrapper over each facade: init with a facade whose addBreadcrumb
\* returns or throws, one store bound, calls of its dispatch/commit.
NextFacade ==
    \/ \E a \in Facades : DoInit(a, "handle")
    \/ DoSetStore("sA", "handle")
    \/ DoDestroy
    \/ \E a \in Actions, beh \in Behaviours : HostCall("sA", a, beh)

SpecFacade == Init /\ [][NextFacade]_vars

\* A wrapper that outlives its binding: the host binds stores, keeps a
\* reference to the wrapper, destroys, and calls the reference and the
\* stores' properties.
NextHeld ==
    \/ DoInit("api", "handle")
    \/ \E t \in {"sA", "sB"} : DoSetStore(t, "handle")
    \/ DoDestroy
    \/ \E s \in {"sA", "sB"}, beh \in Behaviours : HostCall(s, "X", beh)
    \/ \E beh \in Behaviours : HostCallHeld("X", beh)

SpecHeld == Init /\ [][NextHeld]_vars

\* destroy() from inside a wrapped call: one store bound, with an
\* unsubscribe handle that returns or throws, calls of its dispatch/commit
\* whose own method does or does not call destroy().
NextReentrant ==
    \/ DoInit("api", "handle")
    \/ \E sb \in {"handle", "badHandle"} : DoSetStore("sA", sb)
    \/ DoDestroy
    \/ \E a \in Actions, beh \in Behaviours : HostCall("sA", a, beh)
    \/ \E a \in Actions, beh \in Behaviours : HostCallDestroying("sA", a, beh)

SpecReentrant == Init /\ [][NextReentrant]_vars

\* The convenience lookup: the host assigns the window bindings in any
\* order, with stores setStore accepts and stores it rejects, and the caller
\* runs autoFindStore.
NextAuto ==
    \/ \E i \in WinSlots, s \in WinStores : SetGlobal(i, s)
    \/ \E a \in ApiValues : DoInit(a, "handle")
    \/ DoAutoFindStore("handle")
    \/ DoDestroy

SpecAuto == Init /\ [][NextAuto]_vars

\* The life cycle of a Redux / Vuex interceptor: init, setStore on targets
\* it accepts and on targets it rejects, destroy.
NextStoreLife ==
    \/ \E a \in ApiValues : DoInit(a, "handle")
    \/ \E t \in {"sA", "sNoSub", NULL}, sb \in SubBehaviours : DoSetStore(t, sb)
    \/ DoDestroy

\* The life cycle of an interceptor of any of the three variants.
NextLife ==
    \/ variant \in Variants /\ NextStoreLife
    \/ NextDom

SpecLife == InitOf(Variants \cup {"error"}) /\ [][NextLife]_vars

----------------------------------------------------------------------------
(* Properties *)

\* A first bind: the last accepted setStore ran on an unbound interceptor and
\* found the store's own method in the property.
FirstBind == soleBind.s # NULL /\ soleBind.first /\ IsNative(soleBind.pre)

ReachedNative(ev) == \E i \in 1..Len(ev) : ev[i][1] = "native"

Categories(ev) == [i \in 1..Len(ev) |-> ev[i][2]]

\* C1: after init, a first setStore on a store holding its own method, any
\* wrapped calls and destroy, the store's dispatch/commit property is again
\* the function it held before setStore, and a call of it runs the store's
\* method alone: same result or error, no breadcrumb, no sendError.
RoundTripRestore ==
    (lastOp.op = "destroy" /\ FirstBind) =>
        /\ method[soleBind.s] = soleBind.pre
        /\ lastCall.s = soleBind.s =>
              /\ lastCall.ev = <<NativeCall(lastCall.s, lastCall.s, lastCall.a)>>
              /\ lastCall.out = (IF lastCall.beh = "ok" THEN "return" ELSE "throw")
              /\ lastCall.val = (IF lastCall.beh = "ok" THEN lastCall.a ELSE "NativeError")

RoundTripRestoreWitness ==
    /\ lastOp.op = "destroy"
    /\ FirstBind
    /\ lastCall.s = soleBind.s
    /\ lastCall.out = "throw"

\* C2: a wrapped call that returns has made exactly the calls addBreadcrumb
\* (pre), the original method, addBreadcrumb (post), in that order, no
\* sendError, and returns the original's result.
WrappedReturnTrace ==
    (IsWrapper(lastCall.m) /\ lastCall.out = "return") =>
        /\ Len(lastCall.ev) = 3
        /\ lastCall.ev[1] = Crumb(variant, "pre", lastCall.a)
        /\ lastCall.ev[2] = NativeCall(store, store, lastCall.a)
        /\ lastCall.ev[3] = Crumb(variant, "post", lastCall.a)
        /\ lastCall.val = lastCall.a

WrappedReturnWitness ==
    /\ IsWrapper(lastCall.m)
    /\ lastCall.out = "return"
    /\ lastCall.s = store

\* The facade calls of a wrapped call, in order: its events without the
\* calls of the store's own method.
ApiCalls(ev) == SelectSeq(ev, LAMBDA e : e[1] # "native")

\* C3: every wrapped call that throws has made exactly the facade calls
\* addBreadcrumb (pre) and then sendError with the thrown error and the
\* action, no post breadcrumb, and the error the caller gets is the one that
\* was sent; a wrapped call whose original method throws never returns
\* normally and throws that error.
WrappedThrowTrace ==
    /\ (IsWrapper(lastCall.m) /\ lastCall.out = "throw") =>
          ApiCalls(lastCall.ev) = <<Crumb(variant, "pre", lastCall.a),
                                    SentError(variant, lastCall.val, lastCall.a)>>
    /\ (IsWrapper(lastCall.m) /\ lastCall.beh = "throw" /\ ReachedNative(lastCall.ev)) =>
          lastCall.out = "throw" /\ lastCall.val = "NativeError"

\* C4: the Redux interceptor binds every target that has dispatch and
\* subscribe; after a first setStore on such a target a dispatch that returns
\* emits breadcrumbs of the categories redux, redux around the original's
\* call and returns the original's result, and after destroy the property is
\* the pre-bind function.
ReduxAcceptsDispatchSubscribe ==
    variant = "redux" =>
        /\ (/\ lastOp.op = "setStore"
            /\ lastOp.target # NULL
            /\ HasMethod(lastOp.target) /\ HasSubscribe(lastOp.target)
            /\ api # NULL) =>
              store = lastOp.target /\ IsWrapper(method[lastOp.target])
        /\ (/\ FirstBind /\ store = soleBind.s /\ api # NULL
            /\ HasMethod(store)
            /\ lastCall.s = store /\ IsWrapper(lastCall.m) /\ lastCall.beh = "ok") =>
              /\ Categories(lastCall.ev) = <<"redux", soleBind.s, "redux">>
              /\ lastCall.ev[1][1] = "crumb" /\ lastCall.ev[3][1] = "crumb"
              /\ lastCall.out = "return"
              /\ lastCall.val = lastCall.a
        /\ (lastOp.op = "destroy" /\ FirstBind) => method[soleBind.s] = soleBind.pre

\* C5: setStore on a null target, or on one that lacks the wrapped method or
\* subscribe, changes nothing.
RejectsIncompleteTarget ==
    (/\ lastOp.op = "setStore"
     /\ \/ lastOp.target = NULL
        \/ ~(HasMethod(lastOp.target) /\ HasSubscribe(lastOp.target))) =>
        ~lastOp.mutated

\* C6: the saved original is never one of the interceptor's wrappers, and
\* after destroy no store is left with a wrapper in its property.
NeverLosesOriginal ==
    /\ ~IsWrapper(originalMethod)
    /\ lastOp.op = "destroy" => \A s \in Stores : ~IsWrapper(method[s])

\* C7: init, setStore, autoFindStore, destroy and the discovery polls return
\* normally.
NoOperationThrows == ~lastOp.threw
\* C8 as stated: a chain that gives up has polled 5 times.
ExhaustedAfterFivePolls ==
    \A c \in Chains : diags[c] > 0 => (polls[c] = 5 /\ diags[c] = 1)

\* C8 amended: with the default budget a chain warns at most once, and only
\* after exactly 6 polls (1 immediate, 5 from timers) that found nothing;
\* it has then no timer pending and has called setStore never.
ExhaustedAfterSixPolls ==
    \A c \in Chains :
        /\ diags[c] <= 1
        /\ polls[c] <= DefaultRetries + 1
        /\ diags[c] = 1 =>
              /\ polls[c] = DefaultRetries + 1
              /\ timer[c] = NoTimer
              /\ setCalls[c] = 0

ExhaustedWitness == \E c \in Chains : diags[c] = 1 /\ polls[c] = 6

\* C9: a poll that runs while a window binding is present calls setStore
\* (once, and the chain ends there).
PollBindsPresentCandidate ==
    (lastOp.op \in {"init", "poll"} /\ lastOp.present) =>
        /\ ~lastOp.threw
        /\ lastOp.set
        /\ \A c \in Chains : setCalls[c] <= 1 /\ (setCalls[c] = 1 => timer[c] = NoTimer)

\* C10: every chain's timer is eventually gone for good; each failed poll
\* schedules the next with one retry fewer, never fewer than zero, so a
\* chain polls at most 6 times.
Remaining(c) == IF timer[c] = NoTimer THEN DefaultRetries ELSE timer[c]

RetryLoopTerminates ==
    /\ \A c \in Chains : <>[](timer[c] = NoTimer)
    /\ [](\A c \in Chains : timer[c] = NoTimer \/ timer[c] \in 0..(DefaultRetries - 1))
    /\ [][\A c \in Chains :
            (polls'[c] # polls[c] /\ timer'[c] # NoTimer) =>
                (Remaining(c) > 0 /\ timer'[c] = Remaining(c) - 1)]_vars

RetryLoopWitness ==
    \E c \in Chains : polls[c] = DefaultRetries + 1 /\ timer[c] = NoTimer /\ diags[c] = 1

\* C11: a timer-driven poll that fires after the caller has bound a store
\* with setStore, and finds a candidate, leaves the bound store, the saved
\* original and every store's dispatch/commit property as they were.
ExplicitBindSurvivesPoll ==
    (/\ lastOp.op = "poll" /\ nchains = 1
     /\ lastOp.over = "caller" /\ lastOp.present) =>
        ~lastOp.mutated /\ ~lastOp.changed

\* C12: a timer-driven poll that fires after destroy(), with no init() since,
\* and finds a candidate patches nothing and leaves the interceptor unbound.
DestroyedNeverAutoBinds ==
    (lastOp.op = "poll" /\ lastOp.lifecycle = "destroyed" /\ lastOp.present) =>
        /\ ~lastOp.mutated
        /\ ~lastOp.changed
        /\ ~getInfo(Closure).hasStore

\* C13: whenever destroy() has returned, it did not throw, the store bound
\* first has its own method back, and store, saved original, unsubscribe
\* handle and api are null: getInfo reports isInitialized false, hasStore false.
DestroyUnwinds ==
    (variant \in Variants /\ lastOp.op = "destroy") =>
        /\ ~lastOp.threw
        /\ FirstBind => method[soleBind.s] = soleBind.pre
        /\ api = NULL /\ store = NULL
        /\ originalMethod = NULLM /\ unsubscribe = NoHandle
        /\ ~getInfo(Closure).isInitialized /\ ~getInfo(Closure).hasStore

\* C14: a destroy() that directly follows a destroy() does not throw, writes
\* no closure variable, store or window handler, and invokes no unsubscribe
\* handle.
DestroyIdempotent ==
    (lastOp.op = "destroy" /\ lastOp.again) =>
        ~lastOp.threw /\ ~lastOp.changed /\ ~lastOp.mutated /\ ~lastOp.unsub

\* C15: destroy() on an interceptor that never bound a target (Redux, Vuex),
\* or that is not initialised (ErrorInterceptor), does not throw, writes no
\* store and no window handler, invokes no unsubscribe handle, and leaves the
\* interceptor in its state after construction.
DestroyUnboundIsNoOp ==
    /\ (variant \in Variants /\ lastOp.op = "destroy" /\ binds = 0) =>
          /\ ~lastOp.threw /\ ~lastOp.unsub /\ ~lastOp.mutated
          /\ lastOp.lifecycle # "initialised" => ~lastOp.changed
          /\ api = NULL /\ store = NULL
          /\ originalMethod = NULLM /\ unsubscribe = NoHandle
          /\ method = [s \in Stores |-> InitialMethod(s)]
          /\ subs = [s \in Stores |-> 0]
          /\ getInfo(Closure) =
                [isInitialized |-> FALSE, hasStore |-> FALSE, storeType |-> "none"]
    /\ (variant = "error" /\ lastOp.op = "destroy" /\ lastOp.lifecycle \in {"new", "destroyed"}) =>
          /\ ~lastOp.threw /\ ~lastOp.changed /\ ~lastOp.mutated
          /\ ~getStatus(dom).isInitialized
          /\ dom.originalHandlers = NoHandlers

DestroyUnboundWitness ==
    /\ variant \in Variants
    /\ lastOp.op = "destroy" /\ binds = 0
    /\ lastOp.lifecycle = "initialised" /\ lastOp.changed

\* C16: the saved original is set exactly when a store is bound and that
\* store's dispatch/commit property is the wrapper.
OriginalIffPatched ==
    variant \in Variants =>
        (Truthy(originalMethod) <=> (IF store = NULL THEN FALSE ELSE IsWrapper(method[store])))

\* C17: api is non-null from an init(api) to the next destroy(), and setStore
\* and autoFindStore called outside such an interval write nothing and bind
\* nothing; autoFindStore then returns false.
ApiLiveInterval ==
    /\ lifecycle = "initialised" => api # NULL
    /\ (lastOp.op \in {"setStore", "autoFindStore"} /\ lastOp.lifecycle \in {"new", "destroyed"}) =>
          /\ ~lastOp.mutated /\ ~lastOp.changed
          /\ lastOp.op = "autoFindStore" => lastOp.ret = "false"

\* C18: an init() on an interceptor that is initialised throws nothing,
\* writes nothing (closure, stores, window handlers), and starts neither a
\* discovery poll nor a timer.
SecondInitIsNoOp ==
    (lastOp.op = "init" /\ lastOp.lifecycle = "initialised") =>
        /\ ~lastOp.threw /\ ~lastOp.changed /\ ~lastOp.mutated
        /\ variant \in Variants => (polls[nchains] = 0 /\ timer[nchains] = NoTimer)

\* C19: after a destroy() of an initialised ErrorInterceptor, each window
\* handler that init() replaced holds the value init() found there, null
\* included.
DestroyRestoresHandlers ==
    (variant = "error" /\ lastOp.op = "destroy" /\ lastOp.lifecycle = "initialised") =>
        \A slot \in Slots :
            lastOp.saved[slot] # UNDEFH => dom[slot] = lastOp.saved[slot]

\* C20: an error or rejection event delivered to the replacement handler of
\* an initialised ErrorInterceptor makes exactly one sendError carrying the
\* current breadcrumbs, then exactly one call of the handler init() found, if
\* there was one; onerror returns that handler's result, or false without one.
EventReportedOnceThenChained ==
    (/\ lastEvent.slot # "-" /\ lastEvent.init
     /\ IsReplacement(lastEvent.h) /\ dom.syntropyFront # NULL) =>
        /\ lastEvent.out = "return"
        /\ lastEvent.ev =
              IF IsFunction(lastEvent.prev)
              THEN SentPayload(lastEvent.slot, "api", trail) \o <<ChainedCall(lastEvent.slot)>>
              ELSE SentPayload(lastEvent.slot, "api", trail)
        /\ lastEvent.slot = "onerror" =>
              lastEvent.val = (IF IsFunction(lastEvent.prev) THEN "hostResult" ELSE "false")

\* C21: a call of the wrapper found in store S's dispatch/commit property
\* that reaches a store's own method reaches the method of S, with S as
\* receiver and the caller's argument, also after a later setStore on
\* another store.
WrapperKeepsOwnStore ==
    IsWrapper(lastCall.m) =>
        \A i \in 1..Len(lastCall.ev) :
            lastCall.ev[i][1] = "native" =>
                lastCall.ev[i] = NativeCall(lastCall.s, lastCall.s, lastCall.a)

\* C22: autoFindStore on an initialised interceptor hands to setStore the
\* first present window binding, in the order reduxStore, store, devtools
\* connection with getState (Vuex: $store, store, vuexStore), and nothing
\* when none is present; when setStore rejects that binding, no other
\* binding is bound in its place.
AutoFindFirstPresent ==
    (lastOp.op = "autoFindStore" /\ api # NULL) =>
        /\ lastOp.target =
              (IF win[1] # NULL THEN win[1]
               ELSE IF win[2] # NULL THEN win[2]
               ELSE IF win[3] # NULL /\ (variant = "vuex" \/ HasGetState(win[3]))
               THEN win[3]
               ELSE NULL)
        /\ lastOp.mutated => store = lastOp.target
        /\ (lastOp.target # NULL /\ ~RequiredMethods(variant, lastOp.target)) =>
              ~lastOp.mutated /\ ~lastOp.changed

AutoFindFirstPresentWitness ==
    /\ lastOp.op = "autoFindStore" /\ api # NULL
    /\ win[1] = "sNoSub" /\ win[2] = "sA"
    /\ lastOp.target = "sNoSub"
    /\ ~lastOp.mutated

\* C23: autoFindStore returns true exactly when it bound a store: after
\* true, getInfo reports hasStore and the found store's dispatch/commit
\* property is the wrapper; after false, the call bound nothing.
AutoFindReturnsBound ==
    lastOp.op = "autoFindStore" =>
        /\ lastOp.ret = "true" =>
              /\ lastOp.mutated
              /\ getInfo(Closure).hasStore
              /\ store = lastOp.target
              /\ IsWrapper(method[lastOp.target])
        /\ lastOp.ret = "false" => ~lastOp.mutated /\ ~lastOp.changed

\* C24: once init(api) has run and a valid store is in the first window
\* binding while no discovery chain has given up, the interceptor eventually
\* has that store bound and wrapped, unless it is destroyed or initialised
\* anew first; no setStore call by the caller is involved.
LateStoreEventuallyBound ==
    [](( /\ lifecycle = "initialised" /\ nchains > 0
         /\ win[1] = "sA"
         /\ \A c \in Chains : diags[c] = 0 ) =>
       <>( \/ (store = "sA" /\ IsWrapper(method["sA"]) /\ getInfo(Closure).hasStore)
           \/ lifecycle # "initialised" ))

\* C25: setStore on an initialised interceptor, with a target that has the
\* methods setStore requires, binds that target and installs the wrapper,
\* whether discovery polls are pending or a chain has already given up.
ManualBindAlwaysAvailable ==
    (/\ lastOp.op = "setStore" /\ lastOp.lifecycle = "initialised"
     /\ lastOp.target # NULL /\ RequiredMethods(variant, lastOp.target)) =>
        /\ ~lastOp.threw
        /\ lastOp.mutated
        /\ store = lastOp.target
        /\ IsWrapper(method[lastOp.target])
        /\ getInfo(Closure).hasStore

ManualBindWitness ==
    /\ lastOp.op = "setStore" /\ lastOp.lifecycle = "initialised"
    /\ lastOp.mutated /\ soleBind.first /\ store = "sA"
    /\ \E c \in Chains : diags[c] = 1
    /\ \E c \in Chains : timer[c] # NoTimer

\* C26: a discovery chain that has found nothing so far has logged the
\* remaining-attempts counts 5, 4, 3, 2, 1 up to its latest poll and has its
\* next retry scheduled; it emits the final warning only after the immediate
\* poll and exactly 5 timer-driven retries have failed.
FiveCountdown == <<5, 4, 3, 2, 1>>

RetriesFiveTimesThenWarns ==
    \A c \in Chains :
        (c <= nchains /\ setCalls[c] = 0) =>
            /\ logged[c] = SubSeq(FiveCountdown, 1, Len(logged[c]))
            /\ diags[c] = 0 =>
                  /\ polls[c] = Len(logged[c])
                  /\ timer[c] # NoTimer
            /\ diags[c] = 1 =>
                  /\ polls[c] = 6
                  /\ logged[c] = FiveCountdown
                  /\ timer[c] = NoTimer

\* C27: an init() that follows a destroy() leaves the interceptor and its
\* host as an init() on a new interceptor does: no discovery timer pending
\* but the one this init started, every store but the one this init bound
\* holding its own method and no listener, and the closure variables null
\* unless this init bound a store, then saved from that store's own method.
ReinitLikeNew ==
    (lastOp.op = "init" /\ lastOp.lifecycle = "destroyed") =>
        /\ \A c \in Chains : c # nchains => timer[c] = NoTimer
        /\ \A s \in Stores : s # store => (method[s] = InitialMethod(s) /\ subs[s] = 0)
        /\ store = NULL => (originalMethod = NULLM /\ unsubscribe = NoHandle)
        /\ store # NULL =>
              (lastOp.set /\ originalMethod = InitialMethod(store) /\ subs[store] = 1)

\* C28: a call of the wrapper of the bound store, installed over the store's
\* own method, throws exactly when that method threw, then with its error,
\* and calls sendError exactly when that method threw, whatever the facade's
\* addBreadcrumb does.
WrapperTransparent ==
    (IsWrapper(lastCall.m) /\ lastCall.s = store /\ IsNative(originalMethod)) =>
        /\ (lastCall.out = "throw") <=>
              (ReachedNative(lastCall.ev) /\ lastCall.beh = "throw")
        /\ lastCall.out = "throw" => lastCall.val = "NativeError"
        /\ (\E i \in 1..Len(lastCall.ev) : lastCall.ev[i][1] = "sendError") <=>
              (ReachedNative(lastCall.ev) /\ lastCall.beh = "throw")

\* C29: destroy() leaves every pending discovery timer pending; a timer that
\* fires after destroy() runs its poll, and while the poll finds nothing it
\* schedules the next retry with one fewer remaining, down to the final
\* warning; a timer goes away only by firing, and every chain with a timer
\* pending at a destroy() eventually has none.
DestroyKeepsTimers ==
    /\ [][lastOp'.op = "destroy" => timer' = timer]_vars
    /\ [][\A c \in Chains :
            (/\ lifecycle = "destroyed" /\ lifecycle' = "destroyed"
             /\ polls'[c] = polls[c] + 1 /\ ~lastOp'.present /\ ~lastOp'.threw) =>
                /\ timer[c] # NoTimer
                /\ timer[c] > 0 => (timer'[c] = timer[c] - 1 /\ diags'[c] = diags[c])
                /\ timer[c] = 0 => (timer'[c] = NoTimer /\ diags'[c] = diags[c] + 1)]_vars
    /\ [][\A c \in Chains : timer'[c] # timer[c] => polls'[c] = polls[c] + 1]_vars
    /\ \A c \in Chains :
          (lastOp.op = "destroy" /\ timer[c] # NoTimer) ~> (timer[c] = NoTimer)

DestroyKeepsTimersWitness ==
    /\ lastOp.op = "poll" /\ lastOp.lifecycle = "destroyed"
    /\ \E c \in Chains :
          /\ diags[c] = 1 /\ polls[c] = DefaultRetries + 1
          /\ logged[c] = FiveCountdown

\* C30: a call of the wrapper of the bound store, on an initialised
\* interceptor and a store that has the method, ends without exhausting the
\* call stack and runs the store's own method exactly once, however many
\* times setStore was applied to that store.
WrappedCallReachesOriginalOnce ==
    (/\ IsWrapper(lastCall.m) /\ lastCall.s = store
     /\ api # NULL /\ HasMethod(lastCall.s)) =>
        /\ lastCall.val # "RangeError"
        /\ Cardinality({i \in 1..Len(lastCall.ev) : lastCall.ev[i][1] = "native"}) = 1

\* C31: a wrapper called after destroy(), through a reference the host kept
\* or in a property destroy did not restore, runs the store's own method
\* once and returns its result or rethrows its error, with no error of the
\* wrapper's own.
WrapperOutlivesDestroy ==
    (IsWrapper(lastCall.m) /\ lifecycle = "destroyed") =>
        /\ Cardinality({i \in 1..Len(lastCall.ev) : lastCall.ev[i][1] = "native"}) = 1
        /\ lastCall.out = (IF lastCall.beh = "ok" THEN "return" ELSE "throw")
        /\ lastCall.val = (IF lastCall.beh = "ok" THEN lastCall.a ELSE "NativeError")

\* C32: at most one discovery timer is pending at any time.
Pending == {c \in Chains : timer[c] # NoTimer}

AtMostOneTimer == Cardinality(Pending) <= 1

\* C33: an error or rejection event makes no sendError while the
\* ErrorInterceptor is not initialised, and exactly one while it is
\* initialised with a facade and its replacement handler receives the event,
\* after any sequence of init and destroy calls.
Sends(ev) == Cardinality({i \in 1..Len(ev) : ev[i][1] = "sendError"})

EventReportedPerLifecycle ==
    (variant = "error" /\ lastEvent.slot # "-") =>
        /\ ~dom.isInitialized => Sends(lastEvent.ev) = 0
        /\ (dom.isInitialized /\ IsReplacement(lastEvent.h) /\ dom.syntropyFront # NULL) =>
              Sends(lastEvent.ev) = 1

\* C34: when a destroy() has returned with the interceptor cleared, no store
\* holds a listener that a setStore registered: every handle subscribe
\* returned has been invoked.
NoSubscriptionLeak ==
    (variant \in Variants /\ lastOp.op = "destroy" /\ unsubscribe = NoHandle) =>
        \A s \in Stores : subs[s] = 0

\* C35: a setStore whose target passed validation and whose subscribe threw
\* (no handle for the target was stored) throws nothing to its caller and
\* leaves the closure variables and every store as they were: on an unbound
\* interceptor no store is bound and the target's property is not a wrapper.
SubscribeThrew ==
    lastOp.op = "setStore" /\ lastOp.mutated /\ unsubscribe[1] # lastOp.target

SetStoreAtomicOnFailure ==
    SubscribeThrew =>
        /\ ~lastOp.threw
        /\ ~lastOp.changed
        /\ soleBind.first =>
              (/\ ~getInfo(Closure).hasStore
               /\ method[lastOp.target] = soleBind.pre)

\* C36: a wrapped call during which the store's own method ran destroy()
\* returns that method's result, or rethrows its error, and reports no error
\* of the wrapper's own.
DestroyedDuring(ev) == \E i \in 1..Len(ev) : ev[i][1] = "destroy"

InFlightCallSurvivesDestroy ==
    (IsWrapper(lastCall.m) /\ DestroyedDuring(lastCall.ev)) =>
        /\ lastCall.out = (IF lastCall.beh = "ok" THEN "return" ELSE "throw")
        /\ lastCall.val = (IF lastCall.beh = "ok" THEN lastCall.a ELSE "NativeError")
        /\ \A i \in 1..Len(lastCall.ev) :
              lastCall.ev[i][1] = "sendError" => lastCall.ev[i][3] = "NativeError"

\* C37: where every init is given a facade, getInfo never reports hasStore
\* without isInitialized (no store is bound while api is null), and it
\* reports storeType 'configured' exactly when it reports hasStore.
InfoConsistent ==
    variant \in Variants =>
        /\ getInfo(Closure).hasStore => getInfo(Closure).isInitialized
        /\ store # NULL => api # NULL
        /\ (getInfo(Closure).storeType = "configured") <=> getInfo(Closure).hasStore

InfoConsistentWitness ==
    /\ lastOp.op = "destroy" /\ lastOp.unsub
    /\ getInfo(Closure).hasStore /\ getInfo(Closure).storeType = "configured"
    /\ getInfo(Closure).isInitialized

====
